---- MODULE Spec2Model ----
(***************************************************************************)
(* Model of the rule-based categorization engine of src/budget/clean.py:   *)
(* the Matcher (apply_rules), the Shorthand Index                          *)
(* (build_shorthand_category_mapping) and the interactive Categorization   *)
(* Loop (categorize, driven from __main__).                                *)
(*                                                                         *)
(* Python strings are modelled as sequences of one-character strings, so   *)
(* that substring containment, prefixes, lower(), strip() and the sort     *)
(* order of strings are computed the way the code computes them.           *)
(***************************************************************************)
EXTENDS Integers, Sequences, FiniteSets, TLC

VARIABLES
    df,          \* the working table: sequence of rows [idx, description, category]
    df0,         \* the table as it was handed to the first call (the caller's input)
    ruleset,     \* the in-memory Ruleset: sequence of Rule records
    pc,          \* position of the program
    calls,       \* number of apply_rules calls made by the Matcher driver
    shorthands,  \* result of the last shorthand build: [ok, map, cat]
    autosave,    \* content of rules_autosave.yaml (NoFile when it was never written)
    logged,      \* TRUE once the "multiple categories" error was logged
    appended,    \* number of rules categorize has appended to the Ruleset
    focus,       \* description of the focus transaction (first_null["description"])
    user_cat,    \* the last answer to the category prompt
    cat,         \* the category the last answer resolved to
    make_rule,   \* the last answer to the "Make a general rule?" prompt
    pinned,      \* descriptions given a non-empty category with promotion declined
    all_plain    \* TRUE while every answered iteration declined promotion and named
                 \* a non-empty category without leading or trailing comma or space

vars == <<df, df0, ruleset, pc, calls, shorthands, autosave, logged, appended,
          focus, user_cat, cat, make_rule, pinned, all_plain>>

----------------------------------------------------------------------------
(* Strings *)

\* Code point of a character: the order Python's sorted() compares strings by.
Ord(c) ==
    CASE c = " " -> 32 [] c = "," -> 44
      [] c = "A" -> 65 [] c = "B" -> 66 [] c = "E" -> 69 [] c = "I" -> 73
      [] c = "N" -> 78 [] c = "S" -> 83 [] c = "T" -> 84 [] c = "X" -> 88
      [] c = "Y" -> 89
      [] c = "a" -> 97 [] c = "b" -> 98 [] c = "e" -> 101 [] c = "i" -> 105
      [] c = "n" -> 110 [] c = "s" -> 115 [] c = "t" -> 116 [] c = "x" -> 120
      [] c = "y" -> 121

\* str.lower() and str.upper() on one character
LowerChar(c) ==
    CASE c = "A" -> "a" [] c = "B" -> "b" [] c = "E" -> "e" [] c = "I" -> "i"
      [] c = "S" -> "s" [] c = "T" -> "t" [] c = "X" -> "x" [] c = "Y" -> "y"
      [] OTHER -> c

UpperChar(c) ==
    CASE c = "a" -> "A" [] c = "b" -> "B" [] c = "e" -> "E" [] c = "i" -> "I"
      [] c = "s" -> "S" [] c = "t" -> "T" [] c = "x" -> "X" [] c = "y" -> "Y"
      [] c = "n" -> "N"
      [] OTHER -> c

\* upper that leaves the string as typed (a case-sensitive sentinel comparison)
upperAsTyped(s) == s

lower(s) == [i \in 1..Len(s) |-> LowerChar(s[i])]
upper(s) == [i \in 1..Len(s) |-> UpperChar(s[i])]

\* s[:n]
Prefix(s, n) == SubSeq(s, 1, IF n < Len(s) THEN n ELSE Len(s))

\* Contains matching only a text shorter than the value it is looked for in
ContainsShorter(s, sub) ==
    /\ Len(sub) < Len(s)
    /\ \E i \in 0..(Len(s) - Len(sub)) : SubSeq(s, i + 1, i + Len(sub)) = sub

\* Series.str.contains(sub, regex=False) on one value: literal, case-sensitive
Contains(s, sub) ==
    \E i \in 0..(Len(s) - Len(sub)) : SubSeq(s, i + 1, i + Len(sub)) = sub

\* str.strip(chars): drop leading and trailing characters that are in chars
RECURSIVE lstrip(_, _)
lstrip(s, chars) ==
    IF s # <<>> /\ Head(s) \in chars THEN lstrip(Tail(s), chars) ELSE s

RECURSIVE rstrip(_, _)
rstrip(s, chars) ==
    IF s # <<>> /\ s[Len(s)] \in chars
    THEN rstrip(SubSeq(s, 1, Len(s) - 1), chars) ELSE s

strip(s, chars) == rstrip(lstrip(s, chars), chars)

\* a < b for Python strings: lexicographic by code point, a prefix sorts first
RECURSIVE StrLess(_, _)
StrLess(a, b) ==
    IF a = <<>> THEN b # <<>>
    ELSE IF b = <<>> THEN FALSE
    ELSE IF Head(a) = Head(b) THEN StrLess(Tail(a), Tail(b))
    ELSE Ord(Head(a)) < Ord(Head(b))

\* sorted with the order reversed
RECURSIVE sortedDescending(_)
sortedDescending(S) ==
    IF S = {} THEN <<>>
    ELSE LET m == CHOOSE x \in S : \A y \in S \ {x} : StrLess(y, x)
         IN <<m>> \o sortedDescending(S \ {m})

\* sorted(list(S)) for a set of strings
RECURSIVE sorted(_)
sorted(S) ==
    IF S = {} THEN <<>>
    ELSE LET m == CHOOSE x \in S : \A y \in S \ {x} : StrLess(x, y)
         IN <<m>> \o sorted(S \ {m})

----------------------------------------------------------------------------
(* Data model *)

\* Rule(string_to_match, keep, category); a category of None or "" is <<>>
Rule(m, k, c) == [string_to_match |-> m, keep |-> k, category |-> c]

\* the label-join delimiter ", " of apply_rules and the characters it strips
Delimiter == <<",", " ">>
StripChars == {",", " "}

----------------------------------------------------------------------------
(* Matcher *)

\* ResetCategory without the reset: categories computed incrementally
ResetCategoryKeepsOld(t) == t

\* df["category"] = ""
ResetCategory(t) == [i \in 1..Len(t) |-> [t[i] EXCEPT !.category = <<>>]]

\* DropMatching with == in place of str.contains
DropMatchingEqual(t, rule) ==
    LET Keep(row) == row.description # rule.string_to_match
    IN SelectSeq(t, Keep)

\* df = df[~df["description"].str.contains(rule.string_to_match, regex=False)]
DropMatching(t, rule) ==
    LET Keep(row) == ~Contains(row.description, rule.string_to_match)
    IN SelectSeq(t, Keep)

\* df.loc[matches, "category"] = rule.category + ", " + df.loc[matches, "category"]
Label(t, rule) ==
    [i \in 1..Len(t) |->
        IF Contains(t[i].description, rule.string_to_match)
        THEN [t[i] EXCEPT !.category = rule.category \o Delimiter \o @]
        ELSE t[i]]

\* one pass of the loop body over ruleset.rules
ApplyRule(t, rule) ==
    LET kept == IF ~rule.keep THEN DropMatching(t, rule) ELSE t
    IN IF rule.category # <<>> THEN Label(kept, rule) ELSE kept

\* ApplyRulesFrom leaving the loop after the first removal rule
RECURSIVE ApplyRulesFromStopsAfterDrop(_, _, _)
ApplyRulesFromStopsAfterDrop(t, rules, k) ==
    IF k > Len(rules) THEN t
    ELSE IF ~rules[k].keep THEN ApplyRule(t, rules[k])
    ELSE ApplyRulesFromStopsAfterDrop(ApplyRule(t, rules[k]), rules, k + 1)

RECURSIVE ApplyRulesFrom(_, _, _)
ApplyRulesFrom(t, rules, k) ==
    IF k > Len(rules) THEN t
    ELSE ApplyRulesFrom(ApplyRule(t, rules[k]), rules, k + 1)

\* df["category"] = df["category"].str.strip(", ")
StripCategory(t) ==
    [i \in 1..Len(t) |-> [t[i] EXCEPT !.category = strip(@, StripChars)]]

apply_rules(t, rules) ==
    StripCategory(ApplyRulesFrom(ResetCategory(t), rules, 1))

----------------------------------------------------------------------------
(* Shorthand Index *)

\* the set of distinct non-empty categories of the ruleset
Categories(rules) ==
    {rules[i].category : i \in {j \in 1..Len(rules) : rules[j].category # <<>>}}

\* keys of a shorthand dict, kept as a set of <<key, category>> pairs
Keys(map) == {p[1] : p \in map}

\* shorthands[key]
Lookup(map, key) == (CHOOSE p \in map : p[1] = key)[2]

\* FindLength that never lengthens the prefix
FindLengthFirstLetter(name, map, length) == length

\* FindLength raising one prefix too early (length >= len(cat))
RECURSIVE FindLengthRaisesEarly(_, _, _)
FindLengthRaisesEarly(name, map, length) ==
    IF lower(Prefix(name, length)) \in Keys(map)
    THEN IF length + 1 >= Len(name) THEN 0
         ELSE FindLengthRaisesEarly(name, map, length + 1)
    ELSE length

\* the `while True` loop for one category: the length of the first prefix whose
\* lowercase form is no key yet, or 0 when the loop raises ValueError
RECURSIVE FindLength(_, _, _)
FindLength(name, map, length) ==
    IF lower(Prefix(name, length)) \in Keys(map)
    THEN IF length + 1 > Len(name) THEN 0 ELSE FindLength(name, map, length + 1)
    ELSE length

\* the `for cat in categories` loop from position k on
RECURSIVE BuildFrom(_, _, _)
BuildFrom(cats, k, map) ==
    IF k > Len(cats) THEN [ok |-> TRUE, map |-> map, cat |-> <<>>]
    ELSE LET n == FindLength(cats[k], map, 1)
         IN IF n = 0
            THEN [ok |-> FALSE, map |-> {}, cat |-> cats[k]]
            ELSE BuildFrom(cats, k + 1,
                           map \cup {<<lower(Prefix(cats[k], n)), cats[k]>>})

\* ok = FALSE stands for `raise ValueError(... category {cat})`
build_shorthand_category_mapping(rules) ==
    BuildFrom(sorted(Categories(rules)), 1, {})

NotBuilt == [ok |-> TRUE, map |-> {}, cat |-> <<>>]

----------------------------------------------------------------------------
(* Inputs *)

MaxRows == 2
MaxRules == 2

NoFile == <<"no file">>

Descriptions == {<<"A">>, <<"B">>, <<"A", "B">>}
MatchTexts == {<<"A">>, <<"B">>}
RuleCategories == {<<>>, <<"b">>, <<"B", "B">>, <<"b", " ">>}
PriorCategories == {<<>>, <<"x">>}

\* tables of at most MaxRows rows; idx stands for the row's other columns
Tables(cats) ==
    LET Cells == Descriptions \X cats
        Fill(f) == [i \in DOMAIN f |->
                      [idx |-> i, description |-> f[i][1], category |-> f[i][2]]]
    IN {Fill(f) : f \in UNION {[1..n -> Cells] : n \in 0..MaxRows}}

Rulesets(matches, cats) ==
    LET Rules == {Rule(m, k, c) : m \in matches, k \in BOOLEAN, c \in cats}
    IN UNION {[1..n -> Rules] : n \in 0..MaxRules}

----------------------------------------------------------------------------
(* The Matcher on its own: apply_rules called on a table, then called again  *)
(* on its own output with the same ruleset.                                  *)

InitApply ==
    /\ df \in Tables(PriorCategories)
    /\ df0 = df
    /\ ruleset \in Rulesets(MatchTexts, RuleCategories)
    /\ pc = "matcher"
    /\ calls = 0
    /\ shorthands = NotBuilt
    /\ autosave = NoFile
    /\ logged = FALSE
    /\ appended = 0
    /\ focus = <<>>
    /\ user_cat = <<>>
    /\ cat = <<>>
    /\ make_rule = <<>>
    /\ pinned = {}
    /\ all_plain = TRUE

\* df = apply_rules(df, ruleset) on the caller's table
CallApplyRules ==
    /\ pc = "matcher"
    /\ calls = 0
    /\ df' = apply_rules(df, ruleset)
    /\ calls' = calls + 1
    /\ UNCHANGED <<df0, ruleset, pc, shorthands, autosave, logged, appended,
                   focus, user_cat, cat, make_rule, pinned, all_plain>>

\* df = apply_rules(df, ruleset) once more, on the table the first call returned
CallApplyRulesAgain ==
    /\ pc = "matcher"
    /\ calls = 1
    /\ df' = apply_rules(df, ruleset)
    /\ calls' = calls + 1
    /\ UNCHANGED <<df0, ruleset, pc, shorthands, autosave, logged, appended,
                   focus, user_cat, cat, make_rule, pinned, all_plain>>

NextApply == CallApplyRules \/ CallApplyRulesAgain

SpecApply == InitApply /\ [][NextApply]_vars

----------------------------------------------------------------------------
(* Properties of the Matcher *)

\* some keep=false rule's matchText is a substring of the description
Removed(description, rules) ==
    \E k \in 1..Len(rules) :
        ~rules[k].keep /\ Contains(description, rules[k].string_to_match)

\* the categories of the categorizing rules whose matchText the description contains
MatchingCategories(description, rules) ==
    {rules[k].category :
        k \in {j \in 1..Len(rules) :
                 /\ rules[j].category # <<>>
                 /\ Contains(description, rules[j].string_to_match)}}

\* the components of a category string split on the delimiter ", "
RECURSIVE Components(_)
Components(s) ==
    IF s = <<>> THEN {}
    ELSE IF \E i \in 1..(Len(s) - 1) : SubSeq(s, i, i + 1) = Delimiter
    THEN LET i == CHOOSE j \in 1..(Len(s) - 1) :
                    /\ SubSeq(s, j, j + 1) = Delimiter
                    /\ \A h \in 1..(j - 1) : SubSeq(s, h, h + 1) # Delimiter
         IN {SubSeq(s, 1, i - 1)} \cup Components(SubSeq(s, i + 2, Len(s)))
    ELSE {s}

\* the rows of the input that no keep=false rule removes, in input order
Survivors ==
    LET Stays(row) == ~Removed(row.description, ruleset)
    IN SelectSeq(df0, Stays)

\* a table without its category column
WithoutCategory(t) ==
    [i \in 1..Len(t) |-> [idx |-> t[i].idx, description |-> t[i].description]]

\* C1: apply_rules returns exactly the input transactions, in their original
\* order, whose description contains the matchText of no keep=false rule.
C1_ReturnsExactlyUnremovedRows ==
    calls >= 1 =>
        /\ WithoutCategory(df) = WithoutCategory(Survivors)
        /\ \A i \in 1..Len(df) : ~Removed(df[i].description, ruleset)

\* one matching row among otherwise non-matching rows: the count drops by 1
C1_Witness ==
    /\ calls = 1
    /\ Len(df0) >= 2
    /\ Len(df) = Len(df0) - 1
    /\ \E k \in 1..Len(ruleset) : ~ruleset[k].keep

\* C2: in the output of apply_rules the components of every category string,
\* split on ", ", are exactly the categories of the categorizing rules whose
\* matchText the description contains.
C2_ComponentsAreMatchingCategories ==
    calls >= 1 =>
        \A i \in 1..Len(df) :
            Components(df[i].category) =
                MatchingCategories(df[i].description, ruleset)

\* C3: apply_rules is idempotent: calling it again on its own output with the
\* same ruleset leaves every row and every category as it was.
C3_Idempotent == [][calls >= 1 => df' = df]_vars

\* a second call on a filtered, labelled table whose input carried old labels
C3_Witness ==
    /\ calls = 2
    /\ Len(df) >= 1
    /\ Len(df) < Len(df0)
    /\ \E i \in 1..Len(df0) : df0[i].category # <<>>
    /\ \E i \in 1..Len(df) : df[i].category # <<>>

----------------------------------------------------------------------------
(* The Shorthand Index on its own: one build over a ruleset. *)

MaxCategoryRules == 2
MaxCategoryLen == 2

CategoryChars == {"A", "a", "b"}

CategoryNames ==
    UNION {[1..n -> CategoryChars] : n \in 0..MaxCategoryLen}

InitShorthand ==
    /\ ruleset \in UNION {[1..n -> {Rule(<<"A">>, TRUE, c) : c \in CategoryNames}] :
                            n \in 0..MaxCategoryRules}
    /\ df = <<>>
    /\ df0 = <<>>
    /\ pc = "build"
    /\ calls = 0
    /\ shorthands = NotBuilt
    /\ autosave = NoFile
    /\ logged = FALSE
    /\ appended = 0
    /\ focus = <<>>
    /\ user_cat = <<>>
    /\ cat = <<>>
    /\ make_rule = <<>>
    /\ pinned = {}
    /\ all_plain = TRUE

BuildShorthand ==
    /\ pc = "build"
    /\ shorthands' = build_shorthand_category_mapping(ruleset)
    /\ pc' = IF shorthands'.ok THEN "built" ELSE "raised"
    /\ UNCHANGED <<df, df0, ruleset, calls, autosave, logged, appended,
                   focus, user_cat, cat, make_rule, pinned, all_plain>>

NextShorthand == BuildShorthand

SpecShorthand == InitShorthand /\ [][NextShorthand]_vars

\* a is a proper prefix of b
ProperPrefix(a, b) == Len(a) < Len(b) /\ SubSeq(b, 1, Len(a)) = a

\* C4: a returned mapping has exactly one key per distinct non-empty category,
\* the keys are pairwise distinct, and every key is a non-empty lowercase prefix
\* of the lowercased category it maps to.
C4_OneLowercasePrefixKeyPerCategory ==
    pc = "built" =>
        /\ {p[2] : p \in shorthands.map} = Categories(ruleset)
        /\ Cardinality(shorthands.map) = Cardinality(Categories(ruleset))
        /\ Cardinality(Keys(shorthands.map)) = Cardinality(shorthands.map)
        /\ \A p \in shorthands.map :
              /\ p[1] # <<>>
              /\ p[1] = lower(p[1])
              /\ \E n \in 1..Len(p[2]) : p[1] = SubSeq(lower(p[2]), 1, n)

\* a mapping of two categories in which a key had to be lengthened
C4_Witness ==
    /\ pc = "built"
    /\ Cardinality(shorthands.map) = 2
    /\ \E p \in shorthands.map : Len(p[1]) >= 2

\* C5 as stated: a ruleset whose categories include a name and a proper prefix
\* of it makes the build raise the unresolvable-shorthand error.
C5_PrefixPairRaises ==
    (/\ pc # "build"
     /\ \E a \in Categories(ruleset), b \in Categories(ruleset) : ProperPrefix(a, b))
        => ~shorthands.ok

\* C5 amended: when the categories are exactly a name and a proper prefix of it,
\* the build raises nothing and returns the mapping that gives the shorter name
\* its lowercased first letter and the longer name its lowercased first two.
C5_PrefixPairBuilds ==
    \A a \in Categories(ruleset), b \in Categories(ruleset) :
        (/\ pc # "build"
         /\ Categories(ruleset) = {a, b}
         /\ ProperPrefix(a, b))
            => /\ shorthands.ok
               /\ shorthands.map = {<<lower(Prefix(a, 1)), a>>,
                                    <<lower(Prefix(b, 2)), b>>}

C5_Witness ==
    /\ pc = "built"
    /\ \E a \in Categories(ruleset), b \in Categories(ruleset) :
          Categories(ruleset) = {a, b} /\ ProperPrefix(a, b)

\* C6 as stated: the build never raises (the categories it works on are a set,
\* so they are always pairwise different strings).
C6_DistinctNamesNeverRaise == pc # "build" => shorthands.ok

\* b, ignoring case, is the beginning (or the whole) of a, and a sorts before b
ShadowedBy(b, a) ==
    /\ a # b
    /\ StrLess(a, b)
    /\ Len(a) >= Len(b)
    /\ lower(SubSeq(a, 1, Len(b))) = lower(b)

\* C6 amended: the build raises only for a category that equals, ignoring case,
\* the beginning (or the whole) of a different category sorting before it; a
\* ruleset with no such pair of categories always gets a mapping.
C6_RaisesOnlyWhenShadowed ==
    pc = "raised" =>
        /\ shorthands.cat \in Categories(ruleset)
        /\ \E a \in Categories(ruleset) : ShadowedBy(shorthands.cat, a)

\* the error raised for names that differ even when case is ignored
C6_Witness ==
    /\ pc = "raised"
    /\ \A a \in Categories(ruleset), b \in Categories(ruleset) :
          a # b => lower(a) # lower(b)

----------------------------------------------------------------------------
(* The session of __main__: load the ruleset, build the shorthand index,     *)
(* categorize.                                                               *)

MaxAppended == 2

\* rules a loaded rules.yaml may hold
LoadedRules ==
    {Rule(<<"A">>, TRUE, <<"b">>), Rule(<<"B">>, TRUE, <<"B", "B">>),
     Rule(<<"B">>, FALSE, <<>>), Rule(<<"A">>, TRUE, <<" ">>)}

\* answers to "Enter shorthand, new category or EXIT to end session: "
CategoryAnswers ==
    {<<>>, <<"b">>, <<"B", "B">>, <<"B", "b">>, <<"b", " ">>, <<",">>,
     <<"E", "X", "I", "T">>, <<"e", "x", "i", "t">>}

\* answers to "Make a general rule? (default no) (y/n): "
MakeRuleAnswers == {<<"n">>, <<"y">>, <<"Y", "E", "S">>}

\* answers to "Enter string to match: "
MatchAnswers == {<<"A">>, <<"B">>}

EXIT == <<"E", "X", "I", "T">>

\* nulls = df["category"].isnull() + (df["category"] == "")
Nulls(t) == {i \in 1..Len(t) : t[i].category = <<>>}

\* first_null = df[nulls].iloc[0]
FirstNull(t) == t[CHOOSE i \in Nulls(t) : \A j \in Nulls(t) : i <= j]

\* any(["," in c for c in df["category"].unique()])
MultipleCategories(t) ==
    \E i \in 1..Len(t) : \E j \in 1..Len(t[i].category) : t[i].category[j] = ","

\* a non-empty name that neither starts nor ends with a comma or a space
Plain(name) ==
    /\ name # <<>>
    /\ name[1] \notin StripChars
    /\ name[Len(name)] \notin StripChars

\* make_rule.lower() == "y" or make_rule.lower() == "yes"
Promote(answer) == lower(answer) = <<"y">> \/ lower(answer) = <<"y", "e", "s">>

Init ==
    /\ df \in Tables({<<>>})
    /\ df0 = df
    /\ ruleset \in UNION {[1..n -> LoadedRules] : n \in 0..MaxRules}
    /\ pc = "main"
    /\ calls = 0
    /\ shorthands = NotBuilt
    /\ autosave = NoFile
    /\ logged = FALSE
    /\ appended = 0
    /\ focus = <<>>
    /\ user_cat = <<>>
    /\ cat = <<>>
    /\ make_rule = <<>>
    /\ pinned = {}
    /\ all_plain = TRUE

\* __main__: logger.info(build_shorthand_category_mapping(ruleset))
MainBuildShorthand ==
    /\ pc = "main"
    /\ shorthands' = build_shorthand_category_mapping(ruleset)
    /\ pc' = IF shorthands'.ok THEN "categorize" ELSE "raised"
    /\ UNCHANGED <<df, df0, ruleset, calls, autosave, logged, appended, focus,
                   user_cat, cat, make_rule, pinned, all_plain>>

\* categorize: the first apply_rules, before the loop
CategorizeStart ==
    /\ pc = "categorize"
    /\ df' = apply_rules(df, ruleset)
    /\ pc' = "loop"
    /\ UNCHANGED <<df0, ruleset, calls, shorthands, autosave, logged, appended,
                   focus, user_cat, cat, make_rule, pinned, all_plain>>

\* while nulls.sum() > 0: false, categorize returns
LoopExit ==
    /\ pc = "loop"
    /\ Nulls(df) = {}
    /\ pc' = "returned"
    /\ UNCHANGED <<df, df0, ruleset, calls, shorthands, autosave, logged, appended,
                   focus, user_cat, cat, make_rule, pinned, all_plain>>

\* loop body up to the category prompt; the shorthand build succeeds
LoopPrompt ==
    /\ pc = "loop"
    /\ Nulls(df) # {}
    /\ build_shorthand_category_mapping(ruleset).ok
    /\ focus' = FirstNull(df).description
    /\ shorthands' = build_shorthand_category_mapping(ruleset)
    /\ pc' = "prompt"
    /\ UNCHANGED <<df, df0, ruleset, calls, autosave, logged, appended,
                   user_cat, cat, make_rule, pinned, all_plain>>

\* loop body up to the category prompt; the shorthand build raises ValueError
LoopShorthandError ==
    /\ pc = "loop"
    /\ Nulls(df) # {}
    /\ ~build_shorthand_category_mapping(ruleset).ok
    /\ focus' = FirstNull(df).description
    /\ shorthands' = build_shorthand_category_mapping(ruleset)
    /\ pc' = "raised"
    /\ UNCHANGED <<df, df0, ruleset, calls, autosave, logged, appended,
                   user_cat, cat, make_rule, pinned, all_plain>>

\* the answer is the exit sentinel: break
AnswerExit ==
    /\ pc = "prompt"
    /\ \E u \in CategoryAnswers :
          /\ upper(u) = EXIT
          /\ user_cat' = u
    /\ pc' = "returned"
    /\ UNCHANGED <<df, df0, ruleset, calls, shorthands, autosave, logged, appended,
                   focus, cat, make_rule, pinned, all_plain>>

\* any other answer: resolve the category, ask about promotion, append the
\* rule, re-run the Matcher, check for overlap, autosave
AnswerCategory ==
    /\ pc = "prompt"
    /\ appended < MaxAppended
    /\ \E u \in CategoryAnswers, m \in MakeRuleAnswers, s \in MatchAnswers :
          LET c == IF lower(u) \in Keys(shorthands.map)
                   THEN Lookup(shorthands.map, lower(u)) ELSE u
              description == IF Promote(m) THEN s ELSE focus
              rules == Append(ruleset, Rule(description, TRUE, c))
              t == apply_rules(df, rules)
          IN /\ upper(u) # EXIT
             /\ user_cat' = u
             /\ cat' = c
             /\ make_rule' = m
             /\ pinned' = IF Promote(m) \/ c = <<>> THEN pinned
                          ELSE pinned \cup {focus}
             /\ all_plain' = (all_plain /\ ~Promote(m) /\ Plain(u))
             /\ ruleset' = rules
             /\ appended' = appended + 1
             /\ df' = t
             /\ IF MultipleCategories(t)
                THEN /\ logged' = TRUE
                     /\ pc' = "returned"
                     /\ UNCHANGED autosave
                ELSE /\ autosave' = rules
                     /\ pc' = "loop"
                     /\ UNCHANGED logged
    /\ UNCHANGED <<df0, calls, shorthands, focus>>

Next ==
    \/ MainBuildShorthand
    \/ CategorizeStart
    \/ LoopExit
    \/ LoopPrompt
    \/ LoopShorthandError
    \/ AnswerExit
    \/ AnswerCategory

Spec == Init /\ [][Next]_vars

----------------------------------------------------------------------------
(* Properties of the session *)

\* two or more categorizing rules match the description
MultiMatched(description, rules) ==
    Cardinality({k \in 1..Len(rules) :
                    /\ rules[k].category # <<>>
                    /\ Contains(description, rules[k].string_to_match)}) >= 2

\* C7: whenever the working set holds a transaction matched by two or more
\* categorizing rules, the loop has logged the ambiguity and stopped: it is not
\* waiting at a prompt, and categorize has not returned without the diagnostic.
C7_OverlapIsReported ==
    (/\ pc \in {"prompt", "returned"}
     /\ \E i \in 1..Len(df) : MultiMatched(df[i].description, ruleset))
        => (pc = "returned" /\ logged)

\* C8: once an iteration has appended a rule and re-run the Matcher, the
\* autosave file holds exactly the in-memory Ruleset, whether the iteration
\* ended in another scan, in done or in the conflict stop.
C8_AutosaveHoldsRuleset == appended >= 1 => autosave = ruleset

\* C9: the unresolvable-shorthand error is raised only before the first prompt:
\* a session aborted by it has appended no rule and written no autosave.
C9_ShorthandErrorOnlyBeforePrompts ==
    pc = "raised" => (appended = 0 /\ autosave = NoFile)

\* C10: after an iteration in which the user entered category cat and declined
\* promotion, the appended rule is {focus description, keep, cat} and the focus
\* transaction's category is cat; and a transaction categorized that way never
\* becomes uncategorized again.
C10_DeclinedCategorySticks ==
    /\ (/\ pc = "loop"
        /\ appended >= 1
        /\ ~Promote(make_rule)
        /\ cat # <<>>)
          => /\ ruleset[Len(ruleset)] = Rule(focus, TRUE, cat)
             /\ \A i \in 1..Len(df) :
                   df[i].description = focus => df[i].category = cat
    /\ pc \in {"loop", "prompt", "returned", "raised"}
          => \A i \in 1..Len(df) :
                df[i].description \in pinned => df[i].category # <<>>


\* the spellings of the exit sentinel among the answers
ExitSpellings == {<<"E", "X", "I", "T">>, <<"e", "x", "i", "t">>}

\* C11: an answer that is the exit sentinel in any letter case ends the loop at
\* once: categorize returns, no rule is appended, the Matcher is not re-run, no
\* autosave is written and nothing is logged; the Ruleset and the table stay as
\* the last completed iteration left them. The answer is never taken as a
\* category name.
C11_ExitLeavesEverythingAsItWas ==
    [][(pc = "prompt" /\ user_cat' \in ExitSpellings)
          => /\ pc' = "returned"
             /\ ruleset' = ruleset
             /\ df' = df
             /\ autosave' = autosave
             /\ appended' = appended
             /\ logged' = logged
             /\ cat' = cat]_vars

\* the lowercase sentinel answered after a completed, autosaved iteration
C11_Witness ==
    /\ pc = "returned"
    /\ user_cat = <<"e", "x", "i", "t">>
    /\ appended >= 1
    /\ autosave = ruleset
    /\ ~logged


----------------------------------------------------------------------------
(* The Matcher under a reordered ruleset: one call of apply_rules, compared   *)
(* with what every reordering of the same rules returns for the same table.   *)

InitOrder ==
    /\ df \in Tables({<<>>})
    /\ df0 = df
    /\ ruleset \in Rulesets(MatchTexts, RuleCategories)
    /\ pc = "matcher"
    /\ calls = 0
    /\ shorthands = NotBuilt
    /\ autosave = NoFile
    /\ logged = FALSE
    /\ appended = 0
    /\ focus = <<>>
    /\ user_cat = <<>>
    /\ cat = <<>>
    /\ make_rule = <<>>
    /\ pinned = {}
    /\ all_plain = TRUE

NextOrder == CallApplyRules

SpecOrder == InitOrder /\ [][NextOrder]_vars

\* the rulesets that hold the same rules as rules, in any order
Reorderings(rules) ==
    {[i \in 1..Len(rules) |-> rules[f[i]]] :
        f \in {g \in [1..Len(rules) -> 1..Len(rules)] :
                 \A i \in 1..Len(rules), j \in 1..Len(rules) :
                    i # j => g[i] # g[j]}}

\* C12 as stated: every reordering of the ruleset returns the same transactions
\* with the same category field.
C12_OrderIndependent ==
    calls = 1 => \A r \in Reorderings(ruleset) : apply_rules(df0, r) = df

\* C12 amended: every reordering of the ruleset returns the same transactions,
\* and the same category field for every transaction that at most one
\* categorizing rule matches; only the field of a transaction matched by several
\* categorizing rules depends on the order of the rules.
C12_OrderChangesOnlyMultiLabels ==
    calls = 1 =>
        \A r \in Reorderings(ruleset) :
            /\ WithoutCategory(apply_rules(df0, r)) = WithoutCategory(df)
            /\ \A i \in 1..Len(df) :
                  ~MultiMatched(df[i].description, ruleset)
                      => apply_rules(df0, r)[i].category = df[i].category

\* two rules of which one removes a row and the other labels a surviving row
C12_Witness ==
    /\ calls = 1
    /\ Len(ruleset) = 2
    /\ ruleset[1] # ruleset[2]
    /\ Len(df) >= 1
    /\ Len(df) < Len(df0)
    /\ \E i \in 1..Len(df) : df[i].category # <<>>

----------------------------------------------------------------------------
(* The re-run of the Matcher inside the loop *)

\* the position in the working set of the transaction being prompted for
FocusRow(t) == CHOOSE i \in Nulls(t) : \A j \in Nulls(t) : i <= j

\* C13: when promotion is declined, the re-run of the Matcher in that iteration
\* changes the category of no transaction other than the focus transaction.
C13_DeclinedChangesFocusOnly ==
    [][(pc = "prompt" /\ ruleset' # ruleset /\ ~Promote(make_rule'))
          => /\ Len(df') = Len(df)
             /\ \A i \in 1..Len(df) :
                   i # FocusRow(df) => df'[i].category = df[i].category]_vars

\* C14: once the loop has been entered, and after every completed iteration, the
\* working set has the rows and the categories that apply_rules returns for the
\* original input set and the current Ruleset.
C14_WorkingSetIsMatcherOfOriginal ==
    pc \in {"loop", "prompt", "returned"} => df = apply_rules(df0, ruleset)

\* an iteration has completed on a working set the first pass had filtered
C14_Witness ==
    /\ pc = "loop"
    /\ appended >= 1
    /\ Len(df) < Len(df0)
    /\ Nulls(df) = {}
    /\ df = apply_rules(df0, ruleset)

----------------------------------------------------------------------------
(* Progress of the loop *)

\* the uncategorized transactions left by the first pass of the Matcher
InitialNulls ==
    Nulls(apply_rules(df0, SubSeq(ruleset, 1, Len(ruleset) - appended)))

\* C15: while every answer declines promotion and names a non-empty category
\* without leading or trailing comma or space, each completed iteration strictly
\* decreases the number of uncategorized transactions, the iterations completed
\* and the transactions still uncategorized together never exceed the
\* transactions the first pass left uncategorized, and no description is prompted
\* for a second time.
C15_PlainDeclinedAnswersMakeProgress ==
    /\ [](all_plain /\ pc \in {"loop", "prompt", "returned"}
            => appended + Cardinality(Nulls(df)) <= Cardinality(InitialNulls))
    /\ [](all_plain /\ pc = "prompt" => focus \notin pinned)
    /\ [][(pc = "prompt" /\ ruleset' # ruleset /\ all_plain')
             => Cardinality(Nulls(df')) < Cardinality(Nulls(df))]_vars

\* two plain declined answers have categorized the two transactions the first
\* pass left uncategorized
C15_Witness ==
    /\ all_plain
    /\ pc = "loop"
    /\ appended = 2
    /\ Cardinality(InitialNulls) = 2
    /\ Nulls(df) = {}
    /\ Cardinality(pinned) = 2

----------------------------------------------------------------------------
(* The shorthand lookup on a full category name *)

\* C16: when the answer to the category prompt is the exact full name of a
\* category the Ruleset already holds, the appended rule carries that category.
C16_FullNameKeepsItsCategory ==
    (/\ appended >= 1
     /\ upper(user_cat) # EXIT
     /\ user_cat \in Categories(SubSeq(ruleset, 1, Len(ruleset) - 1)))
        => ruleset[Len(ruleset)].category = user_cat

====
